---- MODULE Spec2Model ----
(***************************************************************************)
(* Model of the YAML spec loader of internal/prometheus/spec.go:           *)
(* YAMLSpecLoader.LoadSpec and YAMLSpecLoader.mapSpecToModel.              *)
(*                                                                         *)
(* One LoadSpec call is modelled step by step: the four input checks, then *)
(* one loop iteration per SLO declaration, with the call of a plugin and   *)
(* its return as separate steps (the plugin is foreign code that may fail).*)
(*                                                                         *)
(* Representation:                                                         *)
(*   - a Go pointer is a sequence of length <= 1 (Nil, Ptr(v));            *)
(*   - a Go map[string]string is a function over a finite set of strings;  *)
(*     a nil map and an empty map are both the empty function;             *)
(*   - a float64 objective is a fixed-point number of hundredths           *)
(*     (9999 is 99.99);                                                    *)
(*   - an error is the name of its kind ("" is the nil error).             *)
(***************************************************************************)
EXTENDS Integers, Sequences, FiniteSets, TLC

VARIABLES
    plugins,   \* YAMLSpecLoader.plugins: the registered plugin ids
    data,      \* the argument of LoadSpec
    pc,        \* position of the call: "start", "loop", "plugin", "done"
    spec,      \* the unmarshalled prometheusv1.Spec (s in LoadSpec)
    idx,       \* index of the declaration the range loop is at
    models,    \* mapSpecToModel's models slice
    slo,       \* the SLO under construction while a plugin runs
    lookups,   \* log: indexes of the declarations whose plugin id was looked up
    calls,     \* log: the plugin invocations, in the order they were made
    ret        \* the pair LoadSpec returns: [group, err]

vars == <<plugins, data, pc, spec, idx, models, slo, lookups, calls, ret>>

----------------------------------------------------------------------------
(* Bounds of the model.                                                    *)

\* Largest number of SLO declarations in an input.
MaxSLOs == 2

----------------------------------------------------------------------------
(* Values.                                                                 *)

Nil == <<>>
Ptr(v) == <<v>>

EmptyMap == [k \in {} |-> ""]
Map1(k, v) == [x \in {k} |-> v]
Map2(k1, v1, k2, v2) == [x \in {k1, k2} |-> IF x = k1 THEN v1 ELSE v2]

\* m[k] of a Go map: the zero value "" for a missing key.
MapGet(m, k) == IF k \in DOMAIN m THEN m[k] ELSE ""

NoErr == ""
EmptySpec == "EmptySpec"
MalformedSpec == "MalformedSpec"
UnsupportedVersion == "UnsupportedVersion"
NoSLOs == "NoSLOs"
UnknownPlugin == "UnknownPlugin"
PluginExecutionError == "PluginExecutionError"

\* prometheusv1.Version
Version == "prometheus/v1"

\* 30 * 24 * time.Hour, in hours.
TimeWindow == 30 * 24

----------------------------------------------------------------------------
(* Formatting.                                                             *)

Digit(d) == <<"0", "1", "2", "3", "4", "5", "6", "7", "8", "9">>[d + 1]

RECURSIVE Itoa(_)
Itoa(n) == IF n < 10 THEN Digit(n) ELSE Itoa(n \div 10) \o Digit(n % 10)

\* fmt.Sprintf("%f", objective): the integer part, a point, six decimals.
FormatObjective(obj) ==
    Itoa(obj \div 100) \o "." \o Digit((obj \div 10) % 10) \o Digit(obj % 10) \o "0000"

\* fmt.Sprintf("%s-%s", service, name)
SLOID(sp, specSLO) == sp.Service \o "-" \o specSLO.Name

----------------------------------------------------------------------------
(* mergeLabels(a, b): the entries of a overlaid by the entries of b.       *)

mergeLabels(a, b) ==
    [k \in (DOMAIN a) \cup (DOMAIN b) |-> IF k \in DOMAIN b THEN b[k] ELSE a[k]]

----------------------------------------------------------------------------
(* LoadSpec: the checks made before any declaration is mapped.             *)

\* yaml.Unmarshal(data, &s): an error, or the Spec the document denotes.
Unmarshal(d) ==
    IF d.yaml = Nil THEN [err |-> MalformedSpec, s |-> Nil]
    ELSE [err |-> NoErr, s |-> d.yaml]

\* Mutant: the SLO list is checked before the version.
LoadSpecChecksSLOsFirst(d) ==
    IF d.len = 0 THEN EmptySpec
    ELSE IF Unmarshal(d).err # NoErr THEN MalformedSpec
    ELSE IF Len(Unmarshal(d).s[1].SLOs) = 0 THEN NoSLOs
    ELSE IF Unmarshal(d).s[1].Version # Version THEN UnsupportedVersion
    ELSE NoErr

\* The error of the first check that fails, NoErr when all four pass.
LoadSpecChecks(d) ==
    IF d.len = 0 THEN EmptySpec
    ELSE IF Unmarshal(d).err # NoErr THEN MalformedSpec
    ELSE IF Unmarshal(d).s[1].Version # Version THEN UnsupportedVersion
    ELSE IF Len(Unmarshal(d).s[1].SLOs) = 0 THEN NoSLOs
    ELSE NoErr

\* Mutant: the SLOs mapped before the failure are returned with the error.
ErrReturnPartial(ms, e) == [group |-> Ptr([SLOs |-> ms]), err |-> e]

\* return nil, fmt.Errorf(...): ms is the models slice, which is dropped.
ErrReturn(ms, e) == [group |-> Nil, err |-> e]

\* return &SLOGroup{SLOs: models}, nil
OkReturn(ms) == [group |-> Ptr([SLOs |-> ms]), err |-> NoErr]

----------------------------------------------------------------------------
(* mapSpecToModel: one iteration of the loop.                              *)

\* Mutant: the arguments of mergeLabels swapped, group labels win.
SLOLabelsGroupWins(sp, specSLO) == mergeLabels(specSLO.Labels, sp.Labels)

\* Labels: mergeLabels(spec.Labels, specSLO.Labels)
SLOLabels(sp, specSLO) == mergeLabels(sp.Labels, specSLO.Labels)

\* AlertMeta{Disable: true}
DisabledAlertMeta ==
    [Disable |-> TRUE, Name |-> "", Labels |-> EmptyMap, Annotations |-> EmptyMap]

\* slo := SLO{...}
NewSLO(sp, specSLO) ==
    [ID              |-> SLOID(sp, specSLO),
     Name            |-> specSLO.Name,
     Description     |-> specSLO.Description,
     Service         |-> sp.Service,
     TimeWindow      |-> TimeWindow,
     Objective       |-> specSLO.Objective,
     Labels          |-> SLOLabels(sp, specSLO),
     SLI             |-> [Events |-> Nil, Raw |-> Nil],
     PageAlertMeta   |-> DisabledAlertMeta,
     TicketAlertMeta |-> DisabledAlertMeta]

\* if specSLO.SLI.Events != nil { slo.SLI.Events = &SLIEvents{...} }
SetEvents(s, specSLO) ==
    IF specSLO.SLI.Events # Nil
    THEN [s EXCEPT !.SLI.Events =
            Ptr([ErrorQuery |-> specSLO.SLI.Events[1].ErrorQuery,
                 TotalQuery |-> specSLO.SLI.Events[1].TotalQuery])]
    ELSE s

\* if specSLO.SLI.Raw != nil { slo.SLI.Raw = &SLIRaw{...} }
SetRaw(s, specSLO) ==
    IF specSLO.SLI.Raw # Nil
    THEN [s EXCEPT !.SLI.Raw =
            Ptr([ErrorRatioQuery |-> specSLO.SLI.Raw[1].ErrorRatioQuery])]
    ELSE s

\* Mutant: the plugin is consulted only when neither events nor raw is set.
HasPluginElseIf(specSLO) ==
    /\ specSLO.SLI.Events = Nil
    /\ specSLO.SLI.Raw = Nil
    /\ specSLO.SLI.Plugin # Nil

\* if specSLO.SLI.Plugin != nil
HasPlugin(specSLO) == specSLO.SLI.Plugin # Nil

\* meta := map[string]string{...}
PluginMeta(sp, specSLO) ==
    [k \in {"service", "slo", "objective"} |->
        IF k = "service" THEN sp.Service
        ELSE IF k = "slo" THEN specSLO.Name
        ELSE FormatObjective(specSLO.Objective)]

\* Mutant: the plugin is given the merged labels of the SLO.
PluginCallMergedLabels(i, sp, specSLO) ==
    [idx      |-> i,
     id       |-> specSLO.SLI.Plugin[1].ID,
     meta     |-> PluginMeta(sp, specSLO),
     labels   |-> SLOLabels(sp, specSLO),
     options  |-> specSLO.SLI.Plugin[1].Options,
     returned |-> FALSE, rawQuery |-> "", err |-> NoErr]

\* plugin.Func(ctx, meta, spec.Labels, specSLO.SLI.Plugin.Options), for the
\* declaration at index i; returned, rawQuery and err are set when the call
\* comes back.
PluginCall(i, sp, specSLO) ==
    [idx      |-> i,
     id       |-> specSLO.SLI.Plugin[1].ID,
     meta     |-> PluginMeta(sp, specSLO),
     labels   |-> sp.Labels,
     options  |-> specSLO.SLI.Plugin[1].Options,
     returned |-> FALSE, rawQuery |-> "", err |-> NoErr]

\* The plugin of the tests: a string made of the metadata, the label gk1 and
\* the options k1 and k2.
PluginFunc(meta, labels, options) ==
    "plugin_raw_expr{service=" \o meta["service"]
        \o ",slo=" \o meta["slo"]
        \o ",objective=" \o meta["objective"]
        \o ",gk1=" \o MapGet(labels, "gk1")
        \o ",k1=" \o MapGet(options, "k1")
        \o ",k2=" \o MapGet(options, "k2") \o "}"

\* slo.SLI.Raw = &SLIRaw{ErrorRatioQuery: rawQuery}
SetPluginRaw(s, rawQuery) ==
    [s EXCEPT !.SLI.Raw = Ptr([ErrorRatioQuery |-> rawQuery])]

\* The AlertMeta of an alert that is not disabled.
EnabledAlertMeta(alerting, alert) ==
    [Disable     |-> FALSE,
     Name        |-> alerting.Name,
     Labels      |-> mergeLabels(alerting.Labels, alert.Labels),
     Annotations |-> mergeLabels(alerting.Annotations, alert.Annotations)]

\* Mutant: an alert is configured only when its disable flag is set.
PageAlertMetaInverted(alerting) ==
    IF alerting.PageAlert.Disable
    THEN EnabledAlertMeta(alerting, alerting.PageAlert)
    ELSE DisabledAlertMeta

\* if !specSLO.Alerting.PageAlert.Disable { slo.PageAlertMeta = AlertMeta{...} }
PageAlertMeta(alerting) ==
    IF ~alerting.PageAlert.Disable
    THEN EnabledAlertMeta(alerting, alerting.PageAlert)
    ELSE DisabledAlertMeta

\* Mutant: the ticket alert follows the disable flag of the page alert.
TicketAlertMetaPageFlag(alerting) ==
    IF ~alerting.PageAlert.Disable
    THEN EnabledAlertMeta(alerting, alerting.TicketAlert)
    ELSE DisabledAlertMeta

\* if !specSLO.Alerting.TicketAlert.Disable { slo.TicketAlertMeta = AlertMeta{...} }
TicketAlertMeta(alerting) ==
    IF ~alerting.TicketAlert.Disable
    THEN EnabledAlertMeta(alerting, alerting.TicketAlert)
    ELSE DisabledAlertMeta

\* The two "Set alerts" statements.
SetAlerts(s, specSLO) ==
    [s EXCEPT !.PageAlertMeta = PageAlertMeta(specSLO.Alerting),
              !.TicketAlertMeta = TicketAlertMeta(specSLO.Alerting)]

\* Mutant: the new SLO is put in front of the slice.
AppendModelFront(ms, s) == <<s>> \o ms

\* models = append(models, slo)
AppendModel(ms, s) == Append(ms, s)

----------------------------------------------------------------------------
(* The inputs: what a YAML document can unmarshal to.                      *)

\* The zero value of an alert sub-block and of the alerting block: what
\* yaml.Unmarshal leaves when the document does not mention them.
ZeroAlert == [Disable |-> FALSE, Labels |-> EmptyMap, Annotations |-> EmptyMap]

ZeroAlerting ==
    [Name |-> "", Labels |-> EmptyMap, Annotations |-> EmptyMap,
     PageAlert |-> ZeroAlert, TicketAlert |-> ZeroAlert]

SpecEvents ==
    [ErrorQuery |-> "test_expr_error_1", TotalQuery |-> "test_expr_total_1"]

SpecRaw == [ErrorRatioQuery |-> "test_expr_ratio_2"]

SpecPlugins ==
    {[ID |-> "test_plugin", Options |-> Map2("k1", "v1", "k2", "true")],
     [ID |-> "unknown_plugin", Options |-> EmptyMap]}

\* Every combination of the three signal sources, none and all included.
SpecSLIs ==
    [Events : {Nil, Ptr(SpecEvents)},
     Raw    : {Nil, Ptr(SpecRaw)},
     Plugin : {Nil} \cup {Ptr(p) : p \in SpecPlugins}]

EventsSLI == [Events |-> Ptr(SpecEvents), Raw |-> Nil, Plugin |-> Nil]

\* Name and objective of a declaration (99.99 and 99).
Heads == {[Name |-> "slo1", Objective |-> 9999], [Name |-> "slo-test", Objective |-> 9900]}

GroupLabels == {EmptyMap, Map1("gk1", "gv1"), Map2("gk1", "gv1", "owner", "myteam")}

SLOLabelSets ==
    {EmptyMap, Map1("category", "test"), Map2("gk1", "sv1", "category", "test")}

SpecSLO(head, labels, sli, alerting) ==
    [Name        |-> head.Name,
     Description |-> "This is a test.",
     Objective   |-> head.Objective,
     Labels      |-> labels,
     SLI         |-> sli,
     Alerting    |-> alerting]

SharedAlertings ==
    {[Name |-> "", Labels |-> EmptyMap, Annotations |-> EmptyMap],
     [Name        |-> "testAlert",
      Labels      |-> Map2("tier", "1", "severity", "none"),
      Annotations |-> Map2("runbook", "http://whatever.com", "message", "none")]}

PageAlerts ==
    {ZeroAlert, [Disable |-> TRUE, Labels |-> EmptyMap, Annotations |-> EmptyMap]}
    \cup
    {[Disable     |-> d,
      Labels      |-> Map2("severity", "slack", "channel", "#a-myteam"),
      Annotations |-> Map1("message", "This is very important.")] : d \in BOOLEAN}

TicketAlerts ==
    {ZeroAlert, [Disable |-> TRUE, Labels |-> EmptyMap, Annotations |-> EmptyMap]}
    \cup
    {[Disable     |-> d,
      Labels      |-> Map2("severity", "slack", "channel", "#a-not-so-important"),
      Annotations |-> Map1("message", "This is not very important.")] : d \in BOOLEAN}

Alertings ==
    {[Name |-> a.Name, Labels |-> a.Labels, Annotations |-> a.Annotations,
      PageAlert |-> p, TicketAlert |-> k] :
        a \in SharedAlertings, p \in PageAlerts, k \in TicketAlerts}

\* Declarations that differ in their signal source.
SLIDecls ==
    {SpecSLO(h, Map2("gk1", "sv1", "category", "test"), sli, ZeroAlerting) :
        h \in Heads, sli \in SpecSLIs}

PluginSLI ==
    [Events |-> Nil, Raw |-> Nil,
     Plugin |-> Ptr([ID |-> "test_plugin", Options |-> Map2("k1", "v1", "k2", "true")])]

\* Declarations that differ in their labels.
LabelDecls ==
    {SpecSLO(h, l, sli, ZeroAlerting) :
        h \in Heads, l \in SLOLabelSets, sli \in {EventsSLI, PluginSLI}}

\* Declarations that differ in their alerting block.
AlertDecls ==
    {SpecSLO([Name |-> "slo1", Objective |-> 9999], Map1("category", "test"),
             EventsSLI, a) : a \in Alertings}
    \cup
    {SpecSLO([Name |-> "slo-test", Objective |-> 9900], EmptyMap, PluginSLI, a) :
        a \in {x \in Alertings : x.PageAlert = x.TicketAlert}}

SeqsUpTo(S, n) == UNION {[1..k -> S] : k \in 0..n}

MkSpec(v, labels, slos) ==
    [Version |-> v, Service |-> "test-svc", Labels |-> labels, SLOs |-> slos]

\* The specs over the declarations decls: every list of at most MaxSLOs of them
\* under the supported version, and lists of declarations with no signal source
\* or a plugin under no version and under an unsupported one.
SpecsOf(decls, labels) ==
    {MkSpec(Version, gl, l) : gl \in labels, l \in SeqsUpTo(decls, MaxSLOs)}
    \cup
    {MkSpec(v, gl, l) :
        v \in {"", "prometheus/v2"}, gl \in labels,
        l \in SeqsUpTo({SpecSLO([Name |-> "slo1", Objective |-> 9999], EmptyMap, sli,
                                ZeroAlerting) :
                           sli \in {s \in SpecSLIs : s.Events = Nil /\ s.Raw = Nil}},
                       MaxSLOs)}

\* The byte strings: the empty one, one that is not YAML (":"), and the
\* documents denoting the specs.
DataOf(specs) ==
    {[len |-> 0, yaml |-> Nil], [len |-> 1, yaml |-> Nil]}
    \cup {[len |-> 1, yaml |-> Ptr(s)] : s \in specs}

\* The registries a loader is built with: none, or the plugin of the tests.
Registries == {{}, {"test_plugin"}}

----------------------------------------------------------------------------
(* The state machine of one LoadSpec call.                                 *)

InitWith(inputs) ==
    /\ plugins \in Registries
    /\ data \in inputs
    /\ pc = "start"
    /\ spec = Nil
    /\ idx = 0
    /\ models = <<>>
    /\ slo = Nil
    /\ lookups = <<>>
    /\ calls = <<>>
    /\ ret = [group |-> Nil, err |-> NoErr]

\* Inputs whose declarations differ in their signal source.
Init == InitWith(DataOf(SpecsOf(SLIDecls, {EmptyMap, Map1("gk1", "gv1")})))

\* Inputs whose declarations differ in their labels.
InitLabels == InitWith(DataOf(SpecsOf(LabelDecls, GroupLabels)))

\* Inputs whose declarations differ in their alerting block.
InitAlerts == InitWith(DataOf(SpecsOf(AlertDecls, {Map1("gk1", "gv1")})))

\* LoadSpec up to the call of mapSpecToModel.
LoadSpec ==
    /\ pc = "start"
    /\ IF LoadSpecChecks(data) # NoErr
       THEN /\ ret' = ErrReturn(<<>>, LoadSpecChecks(data))
            /\ pc' = "done"
            /\ UNCHANGED <<spec, idx>>
       ELSE /\ spec' = Unmarshal(data).s
            /\ idx' = 1
            /\ pc' = "loop"
            /\ UNCHANGED ret
    /\ UNCHANGED <<plugins, data, models, slo, lookups, calls>>

\* One iteration of the loop for a declaration without a plugin.
MapSLO ==
    /\ pc = "loop"
    /\ idx <= Len(spec[1].SLOs)
    /\ ~HasPlugin(spec[1].SLOs[idx])
    /\ LET specSLO == spec[1].SLOs[idx]
           s == SetAlerts(SetRaw(SetEvents(NewSLO(spec[1], specSLO), specSLO),
                                 specSLO), specSLO)
       IN  models' = AppendModel(models, s)
    /\ idx' = idx + 1
    /\ UNCHANGED <<plugins, data, pc, spec, slo, lookups, calls, ret>>

\* An iteration for a declaration with a plugin, up to the call of the plugin:
\* the lookup fails and the load ends, or the plugin is called.
InvokePlugin ==
    /\ pc = "loop"
    /\ idx <= Len(spec[1].SLOs)
    /\ HasPlugin(spec[1].SLOs[idx])
    /\ lookups' = Append(lookups, idx)
    /\ LET specSLO == spec[1].SLOs[idx]
       IN  IF specSLO.SLI.Plugin[1].ID \notin plugins
           THEN /\ ret' = ErrReturn(models, UnknownPlugin)
                /\ pc' = "done"
                /\ UNCHANGED <<slo, calls>>
           ELSE /\ slo' = Ptr(SetRaw(SetEvents(NewSLO(spec[1], specSLO), specSLO),
                                     specSLO))
                /\ calls' = Append(calls, PluginCall(idx, spec[1], specSLO))
                /\ pc' = "plugin"
                /\ UNCHANGED ret
    /\ UNCHANGED <<plugins, data, spec, idx, models>>

\* Mutant: after a plugin error the loop goes on with the next declaration.
PluginFailsContinue ==
    /\ pc = "plugin"
    /\ calls' = [calls EXCEPT ![Len(calls)].returned = TRUE,
                              ![Len(calls)].err = "something"]
    /\ slo' = Nil
    /\ idx' = idx + 1
    /\ pc' = "loop"
    /\ UNCHANGED <<plugins, data, spec, models, lookups, ret>>

\* The plugin returns an error: the load ends.
PluginFails ==
    /\ pc = "plugin"
    /\ calls' = [calls EXCEPT ![Len(calls)].returned = TRUE,
                              ![Len(calls)].err = "something"]
    /\ ret' = ErrReturn(models, PluginExecutionError)
    /\ pc' = "done"
    /\ UNCHANGED <<plugins, data, spec, idx, models, slo, lookups>>

\* The plugin returns a query: the rest of the iteration.
PluginReturns ==
    /\ pc = "plugin"
    /\ LET specSLO == spec[1].SLOs[idx]
           c == calls[Len(calls)]
           rawQuery == PluginFunc(c.meta, c.labels, c.options)
           s == SetAlerts(SetPluginRaw(slo[1], rawQuery), specSLO)
       IN  /\ calls' = [calls EXCEPT ![Len(calls)].returned = TRUE,
                                     ![Len(calls)].rawQuery = rawQuery]
           /\ models' = AppendModel(models, s)
    /\ slo' = Nil
    /\ idx' = idx + 1
    /\ pc' = "loop"
    /\ UNCHANGED <<plugins, data, spec, lookups, ret>>

\* The loop is over: mapSpecToModel and LoadSpec return the group.
Return ==
    /\ pc = "loop"
    /\ idx > Len(spec[1].SLOs)
    /\ ret' = OkReturn(models)
    /\ pc' = "done"
    /\ UNCHANGED <<plugins, data, spec, idx, models, slo, lookups, calls>>

Next ==
    \/ LoadSpec
    \/ MapSLO
    \/ InvokePlugin
    \/ PluginFails
    \/ PluginReturns
    \/ Return

Spec == Init /\ [][Next]_vars

SpecLabels == InitLabels /\ [][Next]_vars

SpecAlerts == InitAlerts /\ [][Next]_vars

----------------------------------------------------------------------------
(* Properties.                                                             *)

\* The call has returned.
Done == pc = "done"

\* The call has returned a group and no error.
Loaded == Done /\ ret.err = NoErr

\* The declarations of the input document and the SLOs of the returned group.
InSLOs == data.yaml[1].SLOs
OutSLOs == ret.group[1].SLOs

\* The loop has reached the declaration at index i.
Visited(i) == i < idx \/ (i = idx /\ pc \in {"plugin", "done"})

\* C1: the four input checks are applied in the order empty, malformed,
\* version, SLO list, the first one that fails is the one reported (a wrong
\* version with an empty SLO list is UnsupportedVersion), and when one of them
\* fails no plugin has been looked up or invoked.
C1_ChecksInOrder ==
    Done =>
        /\ data.len = 0 => ret.err = EmptySpec
        /\ (data.len # 0 /\ data.yaml = Nil) => ret.err = MalformedSpec
        /\ (data.len # 0 /\ data.yaml # Nil) =>
               /\ data.yaml[1].Version # "prometheus/v1" =>
                      ret.err = UnsupportedVersion
               /\ (data.yaml[1].Version = "prometheus/v1" /\ InSLOs = <<>>) =>
                      ret.err = NoSLOs
               /\ (data.yaml[1].Version = "prometheus/v1" /\ InSLOs # <<>>) =>
                      ret.err \notin {EmptySpec, MalformedSpec, UnsupportedVersion, NoSLOs}
        /\ ret.err \in {EmptySpec, MalformedSpec, UnsupportedVersion, NoSLOs} =>
               lookups = <<>> /\ calls = <<>>

\* A document with a wrong version and no SLO has been refused.
C1_Witness ==
    /\ Done
    /\ data.yaml # Nil
    /\ data.yaml[1].Version = "prometheus/v2"
    /\ InSLOs = <<>>
    /\ ret.err = UnsupportedVersion

\* C2: LoadSpec returns a group and no error, or no group and an error: never
\* both, never neither, also when earlier declarations had been mapped.
C2_AllOrNothing ==
    Done => \/ ret.group # Nil /\ ret.err = NoErr
            \/ ret.group = Nil /\ ret.err # NoErr

\* The second declaration failed after the first one had been mapped.
C2_Witness ==
    /\ Done
    /\ ret.err \in {UnknownPlugin, PluginExecutionError}
    /\ idx = 2
    /\ Len(models) = 1
    /\ ret.group = Nil

\* C3: a loaded group has one SLO per declaration, in the order of the
\* declarations: the i-th SLO has the name of the i-th declaration and the ID
\* service-name.
C3_OrderAndIdentity ==
    Loaded =>
        /\ Len(OutSLOs) = Len(InSLOs)
        /\ \A i \in 1..Len(InSLOs) :
               /\ OutSLOs[i].Name = InSLOs[i].Name
               /\ OutSLOs[i].ID = data.yaml[1].Service \o "-" \o InSLOs[i].Name

\* Two declarations of different names have been loaded.
C3_Witness ==
    /\ Loaded
    /\ Len(InSLOs) = 2
    /\ InSLOs[1].Name = "slo-test"
    /\ InSLOs[2].Name = "slo1"
    /\ OutSLOs[1].ID = "test-svc-slo-test"
    /\ OutSLOs[2].ID = "test-svc-slo1"

\* C4: in a loaded group every SLO has exactly one of SLI.Events and SLI.Raw
\* set, whatever combination of events, raw and plugin its declaration sets.
C4_ExactlyOneSLI ==
    Loaded =>
        \A i \in 1..Len(OutSLOs) :
            (OutSLOs[i].SLI.Events # Nil) # (OutSLOs[i].SLI.Raw # Nil)

\* An alert's metadata with nothing but the disable flag.
BareAlertMeta(disable) ==
    [Disable |-> disable, Name |-> "", Labels |-> EmptyMap, Annotations |-> EmptyMap]

\* C5, as claimed: a declaration without an alerting block is loaded with both
\* alerts disabled and no name, labels or annotations.
C5_AbsentAlertingDisabled ==
    Loaded =>
        \A i \in 1..Len(InSLOs) :
            InSLOs[i].Alerting = ZeroAlerting =>
                /\ OutSLOs[i].PageAlertMeta = BareAlertMeta(TRUE)
                /\ OutSLOs[i].TicketAlertMeta = BareAlertMeta(TRUE)

\* C5, amended: a declaration without an alerting block is loaded with both
\* alerts not disabled (Disable false) and no name, labels or annotations.
C5_AbsentAlertingEnabled ==
    Loaded =>
        \A i \in 1..Len(InSLOs) :
            InSLOs[i].Alerting = ZeroAlerting =>
                /\ OutSLOs[i].PageAlertMeta = BareAlertMeta(FALSE)
                /\ OutSLOs[i].TicketAlertMeta = BareAlertMeta(FALSE)

\* A declaration without an alerting block has been loaded.
C5_Witness ==
    /\ Loaded
    /\ \E i \in 1..Len(InSLOs) :
           /\ InSLOs[i].Alerting = ZeroAlerting
           /\ ~OutSLOs[i].PageAlertMeta.Disable
           /\ ~OutSLOs[i].TicketAlertMeta.Disable

\* m has the keys of a and of b, with the value of b for a key of b and the
\* value of a for a key of a alone.
IsOverlay(m, a, b) ==
    /\ DOMAIN m = (DOMAIN a) \cup (DOMAIN b)
    /\ \A k \in DOMAIN b : m[k] = b[k]
    /\ \A k \in (DOMAIN a) \ (DOMAIN b) : m[k] = a[k]

\* C6: the labels of a loaded SLO are the group labels overlaid by the labels
\* of its declaration: the union of the keys, the SLO-level value for a key of
\* both.
C6_LabelsMerged ==
    Loaded =>
        \A i \in 1..Len(InSLOs) :
            IsOverlay(OutSLOs[i].Labels, data.yaml[1].Labels, InSLOs[i].Labels)

\* A declaration has been loaded whose labels share a key with the group
\* labels, under another value, and each side has a key of its own.
C6_Witness ==
    /\ Loaded
    /\ \E i \in 1..Len(InSLOs) :
           /\ data.yaml[1].Labels = Map2("gk1", "gv1", "owner", "myteam")
           /\ InSLOs[i].Labels = Map2("gk1", "sv1", "category", "test")
           /\ OutSLOs[i].Labels["gk1"] = "sv1"
           /\ OutSLOs[i].Labels["owner"] = "myteam"
           /\ OutSLOs[i].Labels["category"] = "test"

\* meta is what the alert sub-block alert of the alerting block resolves to.
IsAlertMetaOf(meta, alerting, alert) ==
    IF alert.Disable
    THEN meta = BareAlertMeta(TRUE)
    ELSE /\ meta.Disable = FALSE
         /\ meta.Name = alerting.Name
         /\ IsOverlay(meta.Labels, alerting.Labels, alert.Labels)
         /\ IsOverlay(meta.Annotations, alerting.Annotations, alert.Annotations)

\* C7: the page and the ticket metadata of a loaded SLO each depend on their
\* own sub-block and the shared alerting fields alone: disabled, nothing but
\* Disable; not disabled, the shared name and the shared labels and
\* annotations overlaid by the alert's own.
C7_AlertsIndependent ==
    Loaded =>
        \A i \in 1..Len(InSLOs) :
            /\ IsAlertMetaOf(OutSLOs[i].PageAlertMeta, InSLOs[i].Alerting,
                             InSLOs[i].Alerting.PageAlert)
            /\ IsAlertMetaOf(OutSLOs[i].TicketAlertMeta, InSLOs[i].Alerting,
                             InSLOs[i].Alerting.TicketAlert)

\* A declaration has been loaded whose page alert is disabled, with labels of
\* its own, and whose ticket alert is not, under shared name and labels.
C7_Witness ==
    /\ Loaded
    /\ \E i \in 1..Len(InSLOs) :
           /\ InSLOs[i].Alerting.Name = "testAlert"
           /\ InSLOs[i].Alerting.PageAlert.Disable
           /\ InSLOs[i].Alerting.PageAlert.Labels # EmptyMap
           /\ ~InSLOs[i].Alerting.TicketAlert.Disable
           /\ OutSLOs[i].PageAlertMeta = BareAlertMeta(TRUE)
           /\ OutSLOs[i].TicketAlertMeta.Name = "testAlert"
           /\ OutSLOs[i].TicketAlertMeta.Labels["severity"] = "slack"
           /\ OutSLOs[i].TicketAlertMeta.Labels["tier"] = "1"
           /\ OutSLOs[i].TicketAlertMeta.Annotations["message"]
                  = "This is not very important."

\* The invocations made for the declaration at index i.
CallsOf(i) == {n \in 1..Len(calls) : calls[n].idx = i}

\* The lookups made for the declaration at index i.
LookupsOf(i) == {n \in 1..Len(lookups) : lookups[n] = i}

\* The objectives of the inputs as "%f" prints them.
SixDecimals(objective) ==
    IF objective = 9900 THEN "99.000000"
    ELSE IF objective = 9999 THEN "99.990000"
    ELSE "?"

\* C8: for a declaration with a registered plugin the plugin is invoked exactly
\* once, with the three metadata service, slo and objective, the group-level
\* labels (not the merged labels of the SLO) and the options of the
\* declaration; the string it returns is the raw error-ratio query of the
\* loaded SLO, and the plugin leaves SLI.Events as it was (unset when the
\* declaration sets no events).
C8_PluginInvocation ==
    /\ \A n \in 1..Len(calls) :
           /\ calls[n].idx \in 1..Len(InSLOs)
           /\ InSLOs[calls[n].idx].SLI.Plugin # Nil
           /\ calls[n].id = InSLOs[calls[n].idx].SLI.Plugin[1].ID
           /\ calls[n].id \in plugins
           /\ DOMAIN calls[n].meta = {"service", "slo", "objective"}
           /\ calls[n].meta["service"] = data.yaml[1].Service
           /\ calls[n].meta["slo"] = InSLOs[calls[n].idx].Name
           /\ calls[n].meta["objective"] = SixDecimals(InSLOs[calls[n].idx].Objective)
           /\ calls[n].labels = data.yaml[1].Labels
           /\ calls[n].options = InSLOs[calls[n].idx].SLI.Plugin[1].Options
    /\ data.yaml # Nil =>
           \A i \in 1..Len(InSLOs) :
               (Visited(i) /\ InSLOs[i].SLI.Plugin # Nil
                    /\ InSLOs[i].SLI.Plugin[1].ID \in plugins) =>
                   /\ Cardinality(CallsOf(i)) = 1
                   /\ Loaded =>
                          \A n \in CallsOf(i) :
                              /\ calls[n].returned /\ calls[n].err = NoErr
                              /\ OutSLOs[i].SLI.Raw # Nil
                              /\ OutSLOs[i].SLI.Raw[1].ErrorRatioQuery = calls[n].rawQuery
                              /\ InSLOs[i].SLI.Events = Nil =>
                                     OutSLOs[i].SLI.Events = Nil

\* The declaration of the tests has been loaded: the plugin saw the group
\* label gk1 = gv1, not the SLO-level gk1 = sv1, and its string is the query.
C8_Witness ==
    /\ Loaded
    /\ \E i \in 1..Len(InSLOs) :
           /\ InSLOs[i].Name = "slo-test"
           /\ InSLOs[i].SLI.Plugin # Nil /\ InSLOs[i].SLI.Events = Nil
           /\ InSLOs[i].Labels = Map2("gk1", "sv1", "category", "test")
           /\ OutSLOs[i].Labels["gk1"] = "sv1"
           /\ OutSLOs[i].SLI.Events = Nil
           /\ OutSLOs[i].SLI.Raw[1].ErrorRatioQuery =
                  "plugin_raw_expr{service=test-svc,slo=slo-test,objective=99.000000,gk1=gv1,k1=v1,k2=true}"

C10_SequentialAndShortCircuit ==
    /\ \A n \in 1..Len(calls) :
           /\ n < Len(calls) =>
                  /\ calls[n].returned /\ calls[n].err = NoErr
                  /\ calls[n].idx < calls[n + 1].idx
           /\ ~calls[n].returned => pc = "plugin" /\ idx = calls[n].idx
           /\ calls[n].err # NoErr =>
                  /\ Done /\ ret.err = PluginExecutionError
                  /\ idx = calls[n].idx
    /\ \A n \in 1..Len(lookups) :
           /\ n < Len(lookups) => lookups[n] < lookups[n + 1]
           /\ InSLOs[lookups[n]].SLI.Plugin[1].ID \notin plugins =>
                  /\ n = Len(lookups)
                  /\ Done /\ ret.err = UnknownPlugin
                  /\ idx = lookups[n]
    /\ (Done /\ ret.err \in {UnknownPlugin, PluginExecutionError}) =>
           \A i \in 1..Len(InSLOs) :
               /\ (i < idx /\ InSLOs[i].SLI.Plugin # Nil) =>
                      Cardinality(CallsOf(i)) = 1
               /\ i > idx => CallsOf(i) = {} /\ LookupsOf(i) = {}

\* The plugin of the first declaration failed and the second declaration,
\* which sets a plugin too, was not looked up or invoked.
C10_Witness ==
    /\ Done
    /\ ret.err = PluginExecutionError
    /\ idx = 1
    /\ Len(InSLOs) = 2
    /\ InSLOs[2].SLI.Plugin # Nil
    /\ Len(calls) = 1
    /\ Len(lookups) = 1

====
